---- MODULE Spec2Model ----
(***************************************************************************)
(* The upload/normalize pipeline of audio-normalizer: HTTP handlers        *)
(* (normalizeHandler), the bounded job queue, the worker pool (worker,     *)
(* process) and the content-addressed store on the filesystem.             *)
(*                                                                         *)
(* The repository holds two builds of the program: src/main.go, which      *)
(* claims <hash>.wav.tmp with an exclusive create and ignores the result   *)
(* of os.Rename, and src/unnamed/part_000, which has no exclusive create,  *)
(* runs ffmpeg under a 3 second context and checks os.Rename and the       *)
(* output size.  The variable `variant` says which build is running; it is *)
(* chosen in Init and never changes.                                       *)
(***************************************************************************)
EXTENDS Integers, Sequences, FiniteSets, TLC

(***************************************************************************)
(* Bounds of the model.                                                    *)
(*   NumReq      HTTP requests that arrive (each handled by one goroutine) *)
(*   WorkerCount worker goroutines.  The source starts 4 (main.go:25); the *)
(*               model is parametric in it and is checked with fewer, so   *)
(*               that "all workers busy and a job still queued" is reached *)
(*               with NumReq requests.                                     *)
(*   QueueCap    capacity of jobQueue.  The source makes it 32             *)
(*               (main.go:45); checked with a smaller one so that a full   *)
(*               queue and a blocked sender are reached.                   *)
(***************************************************************************)
NumReq == 3
WorkerCount == 2
QueueCap == 1

MaxUploadSize == 10485760

Requests == 1..NumReq
Workers == 1..WorkerCount
Variants == {"main", "part_000"}

(***************************************************************************)
(* Inputs.  A filename is a sequence of characters; a payload is its bytes *)
(* (named, not spelled out) and its length.                                *)
(***************************************************************************)
NameMp3 == <<"a", ".", "m", "p", "3">>
NameWAV == <<"b", ".", "W", "A", "V">>
NameTxt == <<"c", ".", "t", "x", "t">>

DataShort == [bytes |-> "A", len |-> 4]
DataAtCap == [bytes |-> "B", len |-> MaxUploadSize]
DataOverCap == [bytes |-> "C", len |-> MaxUploadSize + 1]

Payloads == {DataShort, DataAtCap, DataOverCap}

\* What a client sends: `form` says whether the multipart form parses and
\* holds the file field, `readErr` whether reading the file fails.
Upload(form, name, d, readErr) ==
  [form |-> form, name |-> name, data |-> d, readErr |-> readErr]

\* The uploads of the model.  One of them passes every check, so that the
\* requests that reach the store all carry the same bytes.
Uploads ==
  { Upload("ok", NameMp3, DataShort, FALSE),
    Upload("ok", NameTxt, DataShort, FALSE),
    Upload("ok", NameMp3, DataOverCap, FALSE),
    Upload("ok", NameWAV, DataAtCap, TRUE),
    Upload("badform", NameMp3, DataShort, FALSE),
    Upload("nofile", NameMp3, DataShort, FALSE) }

NoName == << >>
NoData == [bytes |-> "-", len |-> 0]

\* strings.ToLower on one character
LowerChar(c) ==
  CASE c = "W" -> "w"
    [] c = "A" -> "a"
    [] c = "V" -> "v"
    [] c = "M" -> "m"
    [] c = "P" -> "p"
    [] OTHER -> c

ToLower(s) == [i \in 1..Len(s) |-> LowerChar(s[i])]

\* filepath.Ext: the suffix from the last "." of the last path element, or ""
RECURSIVE ExtFrom(_, _)
ExtFrom(path, i) ==
  IF i < 1 \/ path[i] = "/" THEN << >>
  ELSE IF path[i] = "." THEN SubSeq(path, i, Len(path))
  ELSE ExtFrom(path, i - 1)

Ext(path) == ExtFrom(path, Len(path))

DotMp3 == <<".", "m", "p", "3">>
DotWav == <<".", "w", "a", "v">>
NoExt == << >>

\* the extension test of normalizeHandler
ExtAllowed(name) ==
  LET ext == ToLower(Ext(name)) IN ~(ext # DotMp3 /\ ext # DotWav)

\* the size test of normalizeHandler
TooLarge(data) == data.len > MaxUploadSize

\* sha256Hex: the digest depends on the bytes only, and distinct bytes of the
\* model have distinct digests
sha256Hex(data) ==
  CASE data.bytes = "A" -> "hA"
    [] data.bytes = "B" -> "hB"
    [] data.bytes = "C" -> "hC"
    [] OTHER -> "h-"

Hashes == {sha256Hex(d) : d \in Payloads}
NoHash == "h-"
Exts == {DotMp3, DotWav}

(***************************************************************************)
(* Files.  A path holds NoFile or a file: `ino` is the request on whose    *)
(* behalf the file was created (the handler's exclusive create in main.go, *)
(* the transcoder run of that request's Job otherwise) and `size` is       *)
(* "zero" or "full".  A transcoder that has the output open keeps writing  *)
(* to that file wherever a rename has moved it.                            *)
(***************************************************************************)
NoFile == [ino |-> 0, size |-> "none"]
NewFile(h) == [ino |-> h, size |-> "zero"]

NoResult == [set |-> FALSE, Err |-> "nil", Size |-> "none"]
NoResp == [kind |-> "none", status |-> "none", fileId |-> NoHash, sizeBytes |-> "none"]
NoJob == [h |-> 0, hash |-> NoHash, ext |-> NoExt]

ErrorCodes ==
  {"INVALID_FORM", "NO_FILE", "UNSUPPORTED_FORMAT", "READ_FAILED",
   "FILE_TOO_LARGE", "FS_ERROR", "FFMPEG_FAILED"}

VARIABLES
  variant,   \* which build runs
  pc,        \* pc[h]: where request h's handler is
  fname,     \* fname[h]: header.Filename
  data,      \* data[h]: the payload read
  skipped,   \* skipped[h]: the flag the handler passes to respond
  ctx,       \* ctx[h]: state of the Job's context: "live", "deadline"
             \* (Err() is DeadlineExceeded), "canceled" (Err() is Canceled),
             \* "done" (the handler has returned)
  result,    \* result[h]: the Job's result channel (capacity 1)
  resp,      \* resp[h]: what the client got
  jobQueue,  \* the channel of Jobs
  wpc,       \* wpc[w]: where worker w is
  wjob,      \* wjob[w]: the Job worker w holds
  wfd,       \* wfd[w]: the file the transcoder of w has open for writing
  werr,      \* werr[w]: how the transcoder of w ended
  tmp,       \* tmp[k]: storage/normalized/<k>.wav.tmp
  wav,       \* wav[k]: storage/normalized/<k>.wav
  tmpIn,     \* tmpIn[<<k, ext>>]: os.TempDir()/<k><ext> exists
  runs,      \* history: runs[k], transcoder invocations for k so far
  first,     \* history: first[k], the first invocation for k and how it ended
  active,    \* history: requests whose Job is inside process
  waited,    \* history: waited[h], "queue" from the moment the queue accepts
             \* the Job of h with every worker busy until Run is called for
             \* it, "starved" when Run then finds the deadline passed and
             \* starts no transcoder
  prior      \* history: prior[h], the sizes that "done" responses for the content
             \* of h had reported when h arrived

vars ==
  <<variant, pc, fname, data, skipped, ctx, result, resp, jobQueue,
    wpc, wjob, wfd, werr, tmp, wav, tmpIn, runs, first, active,
    waited, prior>>

reqVars == <<fname, data, skipped, ctx, result, resp>>
workerVars == <<wpc, wjob, wfd, werr>>
fsVars == <<tmp, wav, tmpIn>>
histVars == <<runs, first, active, prior>>

hash(h) == sha256Hex(data[h])
ext(h) == ToLower(Ext(fname[h]))

Init ==
  /\ variant \in Variants
  /\ pc = [h \in Requests |-> "idle"]
  /\ fname = [h \in Requests |-> NoName]
  /\ data = [h \in Requests |-> NoData]
  /\ skipped = [h \in Requests |-> FALSE]
  /\ ctx = [h \in Requests |-> "live"]
  /\ result = [h \in Requests |-> NoResult]
  /\ resp = [h \in Requests |-> NoResp]
  /\ jobQueue = << >>
  /\ wpc = [w \in Workers |-> "idle"]
  /\ wjob = [w \in Workers |-> NoJob]
  /\ wfd = [w \in Workers |-> 0]
  /\ werr = [w \in Workers |-> "nil"]
  /\ tmp = [k \in Hashes |-> NoFile]
  /\ wav = [k \in Hashes |-> NoFile]
  /\ tmpIn = [p \in Hashes \X Exts |-> FALSE]
  /\ runs = [k \in Hashes |-> 0]
  /\ first = [k \in Hashes |-> [h |-> 0, res |-> "none"]]
  /\ active = {}
  /\ waited = [h \in Requests |-> "no"]
  /\ prior = [h \in Requests |-> {}]

(***************************************************************************)
(* normalizeHandler                                                        *)
(***************************************************************************)

\* io.ReadAll reads into a buffer of capacity 512 and grows it when full, so
\* the slice it returns has at least that capacity
ReadAllCap(n) == IF n < 512 THEN 512 ELSE n

\* data[:16] is in range iff 16 <= cap(data)
SliceOk(d) == 16 <= ReadAllCap(d.len)

ErrorResp(code) ==
  [kind |-> "error", status |-> code, fileId |-> NoHash, sizeBytes |-> "none"]

PanicResp ==
  [kind |-> "panic", status |-> "none", fileId |-> NoHash, sizeBytes |-> "none"]

\* The handler returns response r: its locals are gone and its context is
\* over (part_000 runs the deferred cancel(), net/http cancels r.Context()),
\* which nothing reads after that.
Return(h, r) ==
  /\ pc' = [pc EXCEPT ![h] = "done"]
  /\ resp' = [resp EXCEPT ![h] = r]
  /\ fname' = [fname EXCEPT ![h] = NoName]
  /\ data' = [data EXCEPT ![h] = NoData]
  /\ skipped' = [skipped EXCEPT ![h] = FALSE]
  /\ ctx' = [ctx EXCEPT ![h] = "done"]
  /\ waited' = [waited EXCEPT ![h] = "no"]
  /\ prior' = [prior EXCEPT ![h] = {}]

ValidateCodeNoExtCheck(form, name, d, readErr) ==
  IF form = "badform" THEN "INVALID_FORM"
  ELSE IF form = "nofile" THEN "NO_FILE"
  ELSE IF readErr THEN "READ_FAILED"
  ELSE IF TooLarge(d) THEN "FILE_TOO_LARGE"
  ELSE ""

\* what the checks before the hash answer for an upload, "" when it passes;
\* form is how ParseMultipartForm and FormFile fare, readErr how io.ReadAll does
ValidateCode(form, name, d, readErr) ==
  IF form = "badform" THEN "INVALID_FORM"
  ELSE IF form = "nofile" THEN "NO_FILE"
  ELSE IF ~ExtAllowed(name) THEN "UNSUPPORTED_FORMAT"
  ELSE IF readErr THEN "READ_FAILED"
  ELSE IF TooLarge(d) THEN "FILE_TOO_LARGE"
  ELSE ""

\* A request arrives and runs up to the hash.  Requests are interchangeable,
\* so they arrive in the order of their index.
HandlerStart(h) ==
  /\ pc[h] = "idle"
  /\ h > 1 => pc[h - 1] # "idle"
  /\ \E up \in Uploads :
       LET name == up.name
           d == up.data
           code == ValidateCode(up.form, name, d, up.readErr)
       IN
       IF code # "" THEN Return(h, ErrorResp(code))
       ELSE IF ~SliceOk(d) THEN Return(h, PanicResp)
       ELSE /\ fname' = [fname EXCEPT ![h] = name]
            /\ data' = [data EXCEPT ![h] = d]
            /\ pc' = [pc EXCEPT ![h] = "stat"]
            /\ UNCHANGED waited
            /\ prior' = [prior EXCEPT ![h] =
                 {resp[g].sizeBytes : g \in {g \in Requests :
                     resp[g].status = "done" /\ resp[g].fileId = sha256Hex(d)}}]
            /\ UNCHANGED <<resp, ctx, skipped>>
  /\ UNCHANGED <<variant, result, jobQueue, workerVars, fsVars,
                 runs, first, active>>

\* if _, err := os.Stat(outPath); err == nil { respond(..., true, ...) }
HandlerStat(h) ==
  /\ pc[h] = "stat"
  /\ IF wav[hash(h)] # NoFile
       THEN /\ skipped' = [skipped EXCEPT ![h] = TRUE]
            /\ pc' = [pc EXCEPT ![h] = "respond"]
       ELSE /\ pc' = [pc EXCEPT ![h] =
                        IF variant = "main" THEN "claim" ELSE "send"]
            /\ UNCHANGED skipped
  /\ UNCHANGED <<variant, fname, data, ctx, result, resp, jobQueue,
                 workerVars, fsVars, histVars, waited>>

\* main.go only: os.OpenFile(tmpPath, O_CREATE|O_EXCL|O_WRONLY); ioerr is a
\* failure of the create for another reason than the file existing
HandlerClaim(h) ==
  /\ pc[h] = "claim"
  /\ \E ioerr \in BOOLEAN :
       IF tmp[hash(h)] # NoFile
         THEN /\ skipped' = [skipped EXCEPT ![h] = TRUE]
              /\ pc' = [pc EXCEPT ![h] = "respond"]
              /\ UNCHANGED <<tmp, resp, fname, data, ctx, prior, waited>>
         ELSE IF ioerr
         THEN /\ Return(h, ErrorResp("FS_ERROR"))
              /\ UNCHANGED tmp
         ELSE /\ tmp' = [tmp EXCEPT ![hash(h)] = NewFile(h)]
              /\ pc' = [pc EXCEPT ![h] = "send"]
              /\ UNCHANGED <<skipped, resp, fname, data, ctx, prior, waited>>
  /\ UNCHANGED <<variant, result, jobQueue, workerVars, wav, tmpIn,
                 runs, first, active>>

\* the Job the handler builds
JobOf(h) == [h |-> h, hash |-> hash(h), ext |-> ext(h)]

HandlerSendNoBlock(h) ==
  /\ pc[h] = "send"
  /\ jobQueue' = Append(jobQueue, JobOf(h))
  /\ pc' = [pc EXCEPT ![h] = "wait"]
  /\ waited' = [waited EXCEPT ![h] =
       IF \A w \in Workers : wpc[w] # "idle" THEN "queue" ELSE @]
  /\ UNCHANGED <<variant, reqVars, workerVars, fsVars, histVars>>

\* jobQueue <- job: blocks while the channel is full
HandlerSend(h) ==
  /\ pc[h] = "send"
  /\ Len(jobQueue) < QueueCap
  /\ jobQueue' = Append(jobQueue, JobOf(h))
  /\ pc' = [pc EXCEPT ![h] = "wait"]
  /\ waited' = [waited EXCEPT ![h] =
       IF \A w \in Workers : wpc[w] # "idle" THEN "queue" ELSE @]
  /\ UNCHANGED <<variant, reqVars, workerVars, fsVars, histVars>>

\* os.Rename(tmpPath, outPath) succeeds iff the source exists and the
\* filesystem does not fail it
RenameOk(k, ioerr) == tmp[k] # NoFile /\ ~ioerr

AbandonNothing(k) == tmp

\* os.Remove(tmpPath)
Abandon(k) == [tmp EXCEPT ![k] = NoFile]

HandlerGivesUp(h) ==
  /\ pc[h] = "wait"
  /\ result' = [result EXCEPT ![h] = NoResult]
  /\ tmp' = Abandon(hash(h))
  /\ Return(h, ErrorResp("FFMPEG_FAILED"))
  /\ UNCHANGED <<variant, jobQueue, workerVars, wav, tmpIn, runs, first,
                 active>>

\* res := <-job.result and what follows up to respond or the return
HandlerResult(h) ==
  /\ pc[h] = "wait"
  /\ result[h].set
  /\ result' = [result EXCEPT ![h] = NoResult]
  /\ LET k == hash(h) IN
     IF result[h].Err # "nil"
       THEN /\ tmp' = Abandon(k)
            /\ Return(h, ErrorResp("FFMPEG_FAILED"))
            /\ UNCHANGED wav
       ELSE \E ioerr \in BOOLEAN :
            IF RenameOk(k, ioerr)
              THEN /\ wav' = [wav EXCEPT ![k] = tmp[k]]
                   /\ tmp' = [tmp EXCEPT ![k] = NoFile]
                   /\ pc' = [pc EXCEPT ![h] = "respond"]
                   /\ UNCHANGED <<resp, fname, data, skipped, ctx, prior, waited>>
              ELSE IF variant = "main"
              THEN /\ pc' = [pc EXCEPT ![h] = "respond"]
                   /\ UNCHANGED <<tmp, wav, resp, fname, data, skipped, ctx,
                                  prior, waited>>
              ELSE /\ tmp' = Abandon(k)
                   /\ Return(h, ErrorResp("FS_ERROR"))
                   /\ UNCHANGED wav
  /\ UNCHANGED <<variant, jobQueue, workerVars, tmpIn, runs, first, active>>

\* respond: info, _ := os.Stat(path), then info.Size(); a nil info panics
\* before anything is written, and net/http recovers the panic
Respond(h) ==
  /\ pc[h] = "respond"
  /\ LET info == wav[hash(h)] IN
     Return(h, IF info = NoFile THEN PanicResp
               ELSE [kind |-> "ok",
                     status |-> IF skipped[h] THEN "skipped" ELSE "done",
                     fileId |-> hash(h),
                     sizeBytes |-> info.size])
  /\ UNCHANGED <<variant, result, jobQueue, workerVars, fsVars,
                 runs, first, active>>

(***************************************************************************)
(* worker and process                                                      *)
(***************************************************************************)

WorkerDequeueWhileBusy(w) ==
  /\ jobQueue # << >>
  /\ wjob' = [wjob EXCEPT ![w] = Head(jobQueue)]
  /\ jobQueue' = Tail(jobQueue)
  /\ wpc' = [wpc EXCEPT ![w] = "write"]
  /\ active' = active \cup {Head(jobQueue).h}
  /\ UNCHANGED <<variant, pc, reqVars, wfd, werr, fsVars, runs, first,
                 prior, waited>>

WorkerDequeuePeek(w) ==
  /\ wpc[w] = "idle"
  /\ \A v \in Workers : v < w => wpc[v] # "idle"
  /\ jobQueue # << >>
  /\ wjob' = [wjob EXCEPT ![w] = Head(jobQueue)]
  /\ wpc' = [wpc EXCEPT ![w] = "write"]
  /\ active' = active \cup {Head(jobQueue).h}
  /\ UNCHANGED <<variant, pc, reqVars, jobQueue, wfd, werr, fsVars, runs,
                 first, prior, waited>>

\* for job := range jobQueue: a worker that is between Jobs receives one.
\* The workers run the same loop, so of the idle ones the lowest receives.
WorkerDequeue(w) ==
  /\ wpc[w] = "idle"
  /\ \A v \in Workers : v < w => wpc[v] # "idle"
  /\ jobQueue # << >>
  /\ wjob' = [wjob EXCEPT ![w] = Head(jobQueue)]
  /\ jobQueue' = Tail(jobQueue)
  /\ wpc' = [wpc EXCEPT ![w] = "write"]
  /\ active' = active \cup {Head(jobQueue).h}
  /\ UNCHANGED <<variant, pc, reqVars, wfd, werr, fsVars, runs, first,
                 prior, waited>>

\* the worker is between Jobs again
WorkerIdle(w) ==
  /\ wpc' = [wpc EXCEPT ![w] = "idle"]
  /\ wjob' = [wjob EXCEPT ![w] = NoJob]
  /\ wfd' = [wfd EXCEPT ![w] = 0]
  /\ werr' = [werr EXCEPT ![w] = "nil"]

\* job.result <- r (the channel has room for the one Result)
SendResult(w, r) ==
  /\ result' = [result EXCEPT ![wjob[w].h] = r]
  /\ active' = active \ {wjob[w].h}

Failed(e) == [set |-> TRUE, Err |-> e, Size |-> "none"]

\* os.WriteFile(tmpInput, job.data) creates or truncates the file, writes and
\* closes it.  It fails in the create (no file is made) or in the write (the
\* file is there, short); on failure process returns before the removal of
\* tmpInput is deferred
ProcessWrite(w) ==
  /\ wpc[w] = "write"
  /\ \E ioerr \in BOOLEAN :
       IF ioerr
         THEN /\ SendResult(w, Failed("write"))
              /\ WorkerIdle(w)
              /\ \E created \in BOOLEAN :
                   tmpIn' = [tmpIn EXCEPT ![<<wjob[w].hash, wjob[w].ext>>] =
                               @ \/ created]
         ELSE /\ tmpIn' = [tmpIn EXCEPT ![<<wjob[w].hash, wjob[w].ext>>] = TRUE]
              /\ wpc' = [wpc EXCEPT ![w] = "start"]
              /\ UNCHANGED <<result, active, wjob, wfd, werr>>
  /\ UNCHANGED <<variant, pc, fname, data, skipped, ctx, resp, jobQueue,
                 tmp, wav, runs, first, prior, waited>>

\* the first invocation for k is noted when it starts and when it ends
FirstAtStart(k, h, res) ==
  IF runs[k] = 0
    THEN [first EXCEPT ![k] = [h |-> IF res = "pending" THEN h ELSE 0, res |-> res]]
    ELSE first

FirstAtExit(k, h, res) ==
  IF first[k].h = h /\ first[k].res = "pending"
    THEN [first EXCEPT ![k] = [h |-> 0, res |-> res]]
    ELSE first

\* part_000: the state in which a step of process finds the context of
\* request h.  The 3 second deadline may have passed, or the client may have
\* gone away, at any moment since the handler made the context; only process
\* reads it, so the moment is drawn where it is read.  main.go never reads
\* job.ctx.
CtxNow(h) ==
  IF variant = "part_000" /\ ctx[h] = "live"
    THEN {"live", "deadline", "canceled"}
    ELSE {ctx[h]}

\* The state of the context of request h when process returns an error.
\* main.go passes r.Context() in the Job, sets no deadline and never reads
\* it: the client may have gone away all the same.
CtxAtError(h) ==
  IF variant = "main" /\ ctx[h] = "live" THEN {"live", "canceled"}
  ELSE CtxNow(h)

\* Run starts the transcoder.  Under part_000 a context that is already done
\* makes Run return its error without starting anything.  The transcoder
\* opens its input (and fails if another Job's process has removed it), then
\* creates or truncates its output.
FfmpegStart(w) ==
  /\ wpc[w] = "start"
  /\ LET k == wjob[w].hash
         h == wjob[w].h
     IN
     \E c \in CtxNow(h) :
       /\ ctx' = [ctx EXCEPT ![h] = c]
       /\ IF variant = "part_000" /\ c # "live"
            THEN /\ werr' = [werr EXCEPT ![w] = "fail"]
                 /\ wpc' = [wpc EXCEPT ![w] = "ran"]
                 /\ waited' = [waited EXCEPT ![h] =
                      IF c = "deadline" /\ @ = "queue" THEN "starved" ELSE "no"]
                 /\ UNCHANGED <<tmp, wfd, runs, first>>
            ELSE /\ runs' = [runs EXCEPT ![k] = @ + 1]
                 /\ waited' = [waited EXCEPT ![h] = "no"]
                 /\ IF ~tmpIn[<<k, wjob[w].ext>>]
                      THEN /\ werr' = [werr EXCEPT ![w] = "fail"]
                           /\ wpc' = [wpc EXCEPT ![w] = "ran"]
                           /\ first' = FirstAtStart(k, h, "err")
                           /\ UNCHANGED <<tmp, wfd>>
                      ELSE /\ tmp' = [tmp EXCEPT ![k] =
                                        IF @ = NoFile THEN NewFile(h)
                                        ELSE [@ EXCEPT !.size = "zero"]]
                           /\ wfd' = [wfd EXCEPT ![w] =
                                        IF tmp[k] = NoFile THEN h ELSE tmp[k].ino]
                           /\ wpc' = [wpc EXCEPT ![w] = "running"]
                           /\ first' = FirstAtStart(k, h, "pending")
                           /\ UNCHANGED werr
  /\ UNCHANGED <<variant, pc, fname, data, skipped, result, resp, jobQueue,
                 wjob, wav, tmpIn, active, prior>>

\* the file `f` after the transcoder holding `ino` open has written its output
Written(f, ino) == IF f.ino = ino THEN [f EXCEPT !.size = "full"] ELSE f

\* The transcoder ends: with its output written ("ok"), reporting success
\* with nothing written ("empty"), or in error ("fail": its own failure, or,
\* under part_000, killed because the context is done; process reads the
\* context as it returns).
FfmpegExit(w) ==
  /\ wpc[w] = "running"
  /\ LET k == wjob[w].hash
         h == wjob[w].h
     IN
     \E outcome \in {"ok", "empty", "fail"} :
       /\ werr' = [werr EXCEPT ![w] = IF outcome = "fail" THEN "fail" ELSE "nil"]
       /\ IF outcome = "ok"
            THEN /\ tmp' = [tmp EXCEPT ![k] = Written(@, wfd[w])]
                 /\ wav' = [wav EXCEPT ![k] = Written(@, wfd[w])]
            ELSE UNCHANGED <<tmp, wav>>
       /\ first' = FirstAtExit(k, h, IF outcome = "ok" THEN "ok" ELSE "err")
  /\ wpc' = [wpc EXCEPT ![w] = "ran"]
  /\ UNCHANGED <<variant, pc, fname, data, skipped, ctx, result, resp,
                 jobQueue, wjob, wfd, tmpIn, runs, active, prior, waited>>

\* the Result process builds once Run has returned; ctxErr is job.ctx.Err()
ProcessResult(w, ctxErr) ==
  LET k == wjob[w].hash
      h == wjob[w].h
      out == tmp[k]
  IN
  IF variant = "main"
    THEN IF werr[w] # "nil" THEN Failed("ffmpeg")
         ELSE [set |-> TRUE, Err |-> "nil",
               Size |-> IF out = NoFile THEN "zero" ELSE out.size]
    ELSE IF werr[w] # "nil"
           THEN IF ctxErr = "DeadlineExceeded" THEN Failed("timed out")
                ELSE IF ctxErr = "Canceled" THEN Failed("cancelled")
                ELSE Failed("ffmpeg failed")
         ELSE IF out = NoFile THEN Failed("stat")
         ELSE IF out.size = "zero" THEN Failed("empty output")
         ELSE [set |-> TRUE, Err |-> "nil", Size |-> out.size]

\* job.ctx.Err() of a context in state c
CtxErrs(c) ==
  IF c = "deadline" THEN {"DeadlineExceeded"}
  ELSE IF c = "canceled" THEN {"Canceled"}
  ELSE {"nil"}

\* process returns: the Result is built (the context is read when Run
\* returned an error), the deferred os.Remove(tmpInput) runs, and the worker
\* sends the Result
ProcessReturn(w) ==
  /\ wpc[w] = "ran"
  /\ \E c \in IF werr[w] # "nil" THEN CtxAtError(wjob[w].h)
                                  ELSE {ctx[wjob[w].h]} :
       /\ ctx' = [ctx EXCEPT ![wjob[w].h] = c]
       /\ \E ctxErr \in CtxErrs(c) : SendResult(w, ProcessResult(w, ctxErr))
  /\ tmpIn' = [tmpIn EXCEPT ![<<wjob[w].hash, wjob[w].ext>>] = FALSE]
  /\ WorkerIdle(w)
  /\ UNCHANGED <<variant, pc, fname, data, skipped, resp, jobQueue,
                 tmp, wav, runs, first, prior, waited>>

Next ==
  \/ \E h \in Requests : HandlerStart(h)
  \/ \E h \in Requests : HandlerStat(h)
  \/ \E h \in Requests : HandlerClaim(h)
  \/ \E h \in Requests : HandlerSend(h)
  \/ \E h \in Requests : HandlerResult(h)
  \/ \E h \in Requests : Respond(h)
  \/ \E w \in Workers : WorkerDequeue(w)
  \/ \E w \in Workers : ProcessWrite(w)
  \/ \E w \in Workers : FfmpegStart(w)
  \/ \E w \in Workers : FfmpegExit(w)
  \/ \E w \in Workers : ProcessReturn(w)

Spec == Init /\ [][Next]_vars

(***************************************************************************)
(* The goroutines are scheduled: while some worker or handler can take a   *)
(* step, one is taken (every transcoder run ends).                         *)
(***************************************************************************)
Fairness == WF_vars(Next)

FairSpec == Spec /\ Fairness

(***************************************************************************)
(* Claims                                                                  *)
(***************************************************************************)

\* C1: for byte-identical payloads handled concurrently the transcoder is
\* invoked at most once per content hash, provided the first invocation
\* succeeds.
C1_TranscodeAtMostOnce ==
  \A k \in Hashes : first[k].res = "ok" => runs[k] <= 1

\* C2: every success response for content K is issued while <K>.wav exists,
\* and all success responses for the same K report the same file identifier
\* and the same output size.
C2_SuccessResponsesAgree ==
  \A g, h \in Requests :
    resp[g].kind = "ok" =>
      /\ wav[resp[g].fileId] # NoFile
      /\ (resp[h].kind = "ok" /\ resp[h].fileId = resp[g].fileId)
           => resp[h].sizeBytes = resp[g].sizeBytes

\* C3: once <K>.wav exists, no step removes it, replaces it or changes it.
C3_FinalizedNeverChanges ==
  [][\A k \in Hashes : wav[k] # NoFile => wav'[k] = wav[k]]_vars

\* C4: when the request that created a claim marker <K>.wav.tmp has
\* completed, that marker no longer exists.
C4_NoClaimOutlivesRequest ==
  \A h \in Requests : pc[h] = "done" => \A k \in Hashes : tmp[k].ino # h

\* the step in which request h returns FFMPEG_FAILED
ReturnsTranscodeFailure(h) ==
  /\ pc[h] = "wait"
  /\ pc'[h] = "done"
  /\ resp'[h].status = "FFMPEG_FAILED"

\* C5: when a handler that received a Result with an error returns its
\* FFMPEG_FAILED response, no claim marker <K>.wav.tmp exists, and the step
\* has created or changed no finalized entry.
C5_FailureAbandonsClaim ==
  [][\A h \in Requests :
       ReturnsTranscodeFailure(h) => tmp'[hash(h)] = NoFile /\ wav' = wav]_vars

C5_Witness ==
  \E h \in Requests : resp[h].status = "FFMPEG_FAILED"

\* C6: a request for content that an earlier, completed request was answered
\* "done" for is answered "skipped" with the same file identifier and the size
\* that response reported, and never creates a claim marker or enqueues a Job.
C6_ResubmitIsSkipped ==
  [][\A h \in Requests :
       prior[h] # {} =>
         /\ pc'[h] \notin {"claim", "send", "wait"}
         /\ (pc[h] # "done" /\ pc'[h] = "done") =>
              /\ resp'[h].status = "skipped"
              /\ resp'[h].fileId = hash(h)
              /\ prior[h] = {resp'[h].sizeBytes}]_vars

\* C7: the queue never holds more than its capacity, a handler that is
\* sending its Job either stays blocked or has its Job accepted (it is never
\* answered from there), and every handler that is sending eventually has its
\* Job accepted.
C7_QueueBoundedAndBlocking ==
  /\ [](Len(jobQueue) <= QueueCap)
  /\ [][\A h \in Requests :
          pc[h] = "send" =>
            \/ pc'[h] = "send" /\ resp'[h] = resp[h]
            \/ pc'[h] = "wait" /\ resp'[h] = resp[h]
                 /\ jobQueue' = Append(jobQueue, JobOf(h))]_vars
  /\ \A h \in Requests : (pc[h] = "send") ~> (pc[h] = "wait")

C7_Witness ==
  \E h \in Requests :
    /\ pc[h] = "send"
    /\ Len(jobQueue) = QueueCap
    /\ \E w \in Workers : wpc[w] # "idle"

\* C8: at most WorkerCount executions of process are in progress.
C8_AtMostWorkerCountTranscodes ==
  Cardinality(active) <= WorkerCount

C8_Witness ==
  /\ Cardinality(active) = WorkerCount
  /\ jobQueue # << >>
  /\ \A w \in Workers : wpc[w] \in {"running", "ran"}

\* the step in which request h is rejected for its extension or its size
RejectsClientInput(h) ==
  /\ resp[h] = NoResp
  /\ resp'[h].status \in {"UNSUPPORTED_FORMAT", "FILE_TOO_LARGE"}

\* the requests holding a claim marker, a queued Job or a Job in a worker
InPipeline ==
  {tmp[k].ino : k \in Hashes}
    \cup {jobQueue[i].h : i \in 1..Len(jobQueue)}
    \cup {wjob[w].h : w \in Workers}

\* C9: a request rejected for its extension or its size is rejected before
\* it has created a marker or a Job, and the rejection leaves the store and
\* the queue unchanged; so only uploads with an extension in {.mp3, .wav}
\* (case-insensitively) and at most 10 MiB ever get past the checks.
C9_RejectionLeavesStoreUntouched ==
  /\ [][\A h \in Requests :
          RejectsClientInput(h) =>
            /\ h \notin InPipeline
            /\ UNCHANGED <<tmp, wav, tmpIn, jobQueue, wjob>>]_vars
  /\ [](\A h \in Requests :
          pc[h] \notin {"idle", "done"} =>
            /\ ToLower(Ext(fname[h])) \in {DotMp3, DotWav}
            /\ data[h].len <= MaxUploadSize)

C9_Witness ==
  /\ \E h \in Requests : resp[h].status = "UNSUPPORTED_FORMAT"
  /\ \E h \in Requests : resp[h].status = "FILE_TOO_LARGE"
  /\ \E k \in Hashes : tmp[k] # NoFile

\* C10: a request that has ended has exactly one structured outcome, a
\* success response or one of the error codes; no handler ends in a panic.
C10_StructuredOutcome ==
  \A h \in Requests :
    pc[h] = "done" =>
      \/ resp[h].kind = "ok" /\ resp[h].status \in {"done", "skipped"}
      \/ resp[h].kind = "error" /\ resp[h].status \in ErrorCodes

\* the error a Result carries for a transcoder that ended in error while the
\* Job's context was in state c
ErrFor(c) ==
  IF c = "deadline" THEN {"timed out"}
  ELSE IF c = "canceled" THEN {"cancelled"}
  ELSE {"ffmpeg", "ffmpeg failed"}

\* C11: when the transcoder invocation of a Job ends in error, the Result
\* carries "timed out" if the Job's context has passed its deadline,
\* "cancelled" if it has been canceled and the generic transcoder failure
\* otherwise; and the handler that receives an error removes the claim marker.
C11_ErrorTellsContextState ==
  [][/\ \A w \in Workers :
          (wpc[w] = "ran" /\ werr[w] # "nil" /\ wpc'[w] = "idle") =>
            result'[wjob[w].h].Err \in ErrFor(ctx'[wjob[w].h])
     /\ \A h \in Requests :
          (pc[h] = "wait" /\ pc'[h] # "wait" /\ result[h].Err # "nil") =>
            tmp'[hash(h)] = NoFile]_vars

\* C12: a request whose Job had to wait in the queue for a free worker is not
\* failed for that: no request is answered FFMPEG_FAILED for a Job that
\* waited and whose transcoder was never started because the Job's deadline
\* had passed by then.
C12_WaitingNeverFails ==
  [][\A h \in Requests :
       ReturnsTranscodeFailure(h) => waited[h] # "starved"]_vars

\* the requests whose Job for content k is in the queue or held by a worker
JobsFor(k) ==
  {jobQueue[i].h : i \in {i \in 1..Len(jobQueue) : jobQueue[i].hash = k}}
    \cup {wjob[w].h : w \in {w \in Workers : wjob[w].hash = k}}

\* C13: while the claim marker <K>.wav.tmp exists at most one Job for K is
\* queued or being executed, and a Job for K that is queued or being executed
\* belongs to the handler that created the marker.
C13_OneJobPerClaim ==
  \A k \in Hashes :
    /\ tmp[k] # NoFile => Cardinality(JobsFor(k)) <= 1
    /\ \A h \in JobsFor(k) : pc[h] = "wait" /\ tmp[k].ino = h

\* the step in which the exclusive create of request h fails on an existing
\* marker
LosesClaim(h) ==
  /\ pc[h] = "claim"
  /\ tmp[hash(h)] # NoFile
  /\ pc'[h] # "claim"

\* C14: a handler whose exclusive create fails because the marker exists
\* enqueues no Job, leaves the marker as it is, and is answered "skipped".
C14_ClaimLoserIsSkipped ==
  [][\A h \in Requests :
       /\ LosesClaim(h) =>
            /\ pc'[h] = "respond" /\ skipped'[h]
            /\ UNCHANGED <<tmp, jobQueue>>
       /\ (pc[h] = "respond" /\ skipped[h] /\ pc'[h] = "done") =>
            resp'[h].status = "skipped"]_vars

\* the step in which request h, having received a successful Result, goes on
\* from the rename
AfterRename(h) ==
  /\ pc[h] = "wait"
  /\ pc'[h] # "wait"
  /\ result[h].Err = "nil"

\* C15: when the Result is successful and the rename of <K>.wav.tmp to
\* <K>.wav fails, the handler removes the marker and answers FS_ERROR; it
\* goes on to answer "done" only when the rename has succeeded.
C15_FailedRenameIsStorageError ==
  [][\A h \in Requests :
       AfterRename(h) =>
         \/ /\ pc'[h] = "respond"
            /\ tmp[hash(h)] # NoFile
            /\ wav'[hash(h)] = tmp[hash(h)]
            /\ tmp'[hash(h)] = NoFile
         \/ /\ pc'[h] = "done"
            /\ resp'[h].status = "FS_ERROR"
            /\ tmp'[hash(h)] = NoFile]_vars

\* in how many places the Job of request h or its Result is: entries of the
\* queue, workers holding it, its result channel
Holders(h) ==
  Cardinality({i \in 1..Len(jobQueue) : jobQueue[i].h = h})
    + Cardinality({w \in Workers : wjob[w].h = h})
    + (IF result[h].set THEN 1 ELSE 0)

\* C16: the Job of a waiting handler is in exactly one place (the queue, one
\* worker, or, as its Result, its result channel) and of no other handler
\* anywhere; a Result is written only to an empty result channel, by the
\* worker that holds the Job as its process returns, and is read only by the
\* handler that waits for it.
C16_ResultWrittenOnceReadOnce ==
  /\ [](\A h \in Requests : Holders(h) = IF pc[h] = "wait" THEN 1 ELSE 0)
  /\ [][\A h \in Requests :
          /\ (result'[h].set /\ result'[h] # result[h]) =>
               /\ ~result[h].set
               /\ \E w \in Workers :
                    wjob[w].h = h /\ wpc[w] # "idle" /\ wpc'[w] = "idle"
          /\ (result[h].set /\ ~result'[h].set) =>
               pc[h] = "wait" /\ pc'[h] # "wait"]_vars

C16_Witness ==
  \E g, h \in Requests :
    /\ g # h
    /\ result[g].set /\ pc[g] = "wait"
    /\ pc[h] = "done" /\ resp[h].status \in {"done", "FFMPEG_FAILED"}

\* the step in which process returns for a transcoder that reported success
\* and left no output or an empty one
ReturnsForEmptyOutput(w) ==
  /\ wpc[w] = "ran"
  /\ wpc'[w] = "idle"
  /\ werr[w] = "nil"
  /\ tmp[wjob[w].hash].size # "full"

\* C17: when the transcoder reports success and its output is missing or
\* empty, process returns a Result with an error; and no finalized entry is
\* ever empty.
C17_EmptyOutputIsFailure ==
  /\ [][\A w \in Workers :
          ReturnsForEmptyOutput(w) => result'[wjob[w].h].Err # "nil"]_vars
  /\ [](\A k \in Hashes : wav[k].size # "zero")

\* worker w is inside process
InProcess(w) == wpc[w] # "idle"

\* C18: two Jobs that are in process at the same time have different content
\* hashes, hence different temporary inputs and different outputs; no
\* temporary input is removed while another Job in process uses that path
\* and no <K>.wav.tmp is removed while a transcoder is writing it.
C18_NoSharedPaths ==
  /\ [](\A v, w \in Workers :
          (v # w /\ InProcess(v) /\ InProcess(w)) =>
            wjob[v].hash # wjob[w].hash)
  /\ [][\A w \in Workers :
          /\ (InProcess(w) /\ tmpIn[<<wjob[w].hash, wjob[w].ext>>]
                /\ wpc[w] \in {"start", "running"})
               => tmpIn'[<<wjob[w].hash, wjob[w].ext>>]
          /\ (wpc[w] = "running" /\ tmp'[wjob[w].hash] = NoFile)
               => wav'[wjob[w].hash] # wav[wjob[w].hash]]_vars

\* C19: when process returns, whatever its outcome, the temporary input of
\* its Job does not exist.
C19_TempInputRemoved ==
  [][\A w \in Workers :
       (InProcess(w) /\ wpc'[w] = "idle") =>
         ~tmpIn'[<<wjob[w].hash, wjob[w].ext>>]]_vars

\* the requests whose Job is in the queue or held by a worker
InFlight ==
  {jobQueue[i].h : i \in 1..Len(jobQueue)}
    \cup {wjob[w].h : w \in {w \in Workers : InProcess(w)}}

\* C20: while its Job is queued or in process, whatever the state of the
\* Job's context, a handler is blocked on the result channel: it has not been
\* answered, and it takes no step, so it neither renames nor removes its
\* <K>.wav.tmp.
C20_HandlerWaitsForResult ==
  /\ [](\A h \in InFlight :
          pc[h] = "wait" /\ resp[h] = NoResp /\ ~result[h].set)
  /\ [][\A h \in InFlight :
          /\ pc'[h] = "wait"
          /\ resp'[h] = resp[h]
          /\ (tmp'[hash(h)] # tmp[hash(h)] \/ wav'[hash(h)] # wav[hash(h)]) =>
               \/ \E w \in Workers : wpc'[w] # wpc[w]
               \/ \E g \in Requests \ {h} : pc'[g] # pc[g]]_vars

C20_Witness ==
  \E h \in Requests, w \in Workers :
    /\ wjob[w].h = h
    /\ wpc[w] = "ran"
    /\ ctx[h] \in {"deadline", "canceled"}
    /\ pc[h] = "wait"
    /\ tmp[hash(h)] # NoFile

====
